---- MODULE Spec2Model ----
(***************************************************************************)
(* Model of indice-paura.py: a Streamlit dashboard that downloads the VIX  *)
(* and S&P500 price series, aligns them, derives the ratio VIX/SP500*1000, *)
(* its 20-day moving average and Bollinger bands (get_data, memoized by    *)
(* st.cache_data for 3600 s), and renders metrics, a chart, summary        *)
(* statistics and a CSV export (main).  The script is re-run from the top  *)
(* on every widget interaction.                                            *)
(***************************************************************************)
EXTENDS Integers, Sequences, FiniteSets, TLC

VARIABLES
    market,      \* what Yahoo Finance holds: one price frame per symbol
    start_date,  \* st.sidebar.date_input "Data di inizio"
    end_date,    \* st.sidebar.date_input "Data di fine"
    show_ma,     \* the four sidebar checkboxes
    show_bb,
    show_vix,
    show_sp500,
    now,         \* wall clock, in seconds
    cache,       \* st.cache_data store of get_data: key -> entry
    data,        \* what get_data returned to main in the last run
    downloads,   \* the yf.download calls made during the last run
    screen       \* what the last run of the script put on the page

vars == <<market, start_date, end_date, show_ma, show_bb, show_vix,
          show_sp500, now, cache, data, downloads, screen>>

(***************************************************************************)
(* float64 values.  A value is [n, d]: the rational n/d in lowest terms    *)
(* when d > 0, and with d = 0 the IEEE specials +inf (n = 1), -inf         *)
(* (n = -1) and NaN (n = 0).  Arithmetic on finite values is exact.        *)
(***************************************************************************)
Abs(k) == IF k < 0 THEN -k ELSE k

RECURSIVE GCD(_, _)
GCD(a, b) == IF b = 0 THEN a ELSE GCD(b, a % b)

Rat(n, d) ==
    LET g == GCD(Abs(n), d)
    IN  [n |-> n \div g, d |-> d \div g]

Num(k) == [n |-> k, d |-> 1]

NaN == [n |-> 0, d |-> 0]

Inf == [n |-> 1, d |-> 0]

IsNaN(x) == x.d = 0 /\ x.n = 0

IsFinite(x) == x.d # 0

Sgn(k) == IF k > 0 THEN 1 ELSE IF k < 0 THEN -1 ELSE 0

Neg(x) == [n |-> -x.n, d |-> x.d]

Add(x, y) ==
    IF IsNaN(x) \/ IsNaN(y) THEN NaN
    ELSE IF ~IsFinite(x) /\ ~IsFinite(y) THEN (IF x.n = y.n THEN x ELSE NaN)
    ELSE IF ~IsFinite(x) THEN x
    ELSE IF ~IsFinite(y) THEN y
    ELSE LET g == GCD(x.d, y.d)
             l == (x.d \div g) * y.d
         IN  Rat(x.n * (l \div x.d) + y.n * (l \div y.d), l)

Sub(x, y) == Add(x, Neg(y))

Mul(x, y) ==
    IF IsNaN(x) \/ IsNaN(y) THEN NaN
    ELSE IF ~IsFinite(x) \/ ~IsFinite(y)
         THEN [n |-> Sgn(x.n) * Sgn(y.n), d |-> 0]   \* 0 * inf = NaN
    ELSE LET g1 == GCD(Abs(x.n), y.d)
             g2 == GCD(Abs(y.n), x.d)
         IN  Rat((x.n \div g1) * (y.n \div g2), (x.d \div g2) * (y.d \div g1))

\* 1/y; a zero divisor gives +inf (numpy warns and does not raise)
Recip(y) ==
    IF IsNaN(y) THEN NaN
    ELSE IF ~IsFinite(y) THEN Num(0)
    ELSE IF y.n = 0 THEN Inf
    ELSE [n |-> Sgn(y.n) * y.d, d |-> Abs(y.n)]

Div(x, y) == Mul(x, Recip(y))

\* x < y; every comparison with NaN is False
Less(x, y) ==
    IF IsNaN(x) \/ IsNaN(y) THEN FALSE
    ELSE IF ~IsFinite(x) \/ ~IsFinite(y)
         THEN (IF IsFinite(x) THEN y.n > 0 ELSE IF IsFinite(y) THEN x.n < 0 ELSE x.n < y.n)
    ELSE x.n * y.d < y.n * x.d

Leq(x, y) == ~IsNaN(x) /\ ~IsNaN(y) /\ (x = y \/ Less(x, y))

Greater(x, y) == Less(y, x)

RECURSIVE ISqrtIn(_, _, _)
ISqrtIn(k, lo, hi) ==
    IF lo >= hi THEN lo
    ELSE LET mid == (lo + hi + 1) \div 2
         IN  IF mid * mid <= k THEN ISqrtIn(k, mid, hi) ELSE ISqrtIn(k, lo, mid - 1)

\* floor of the square root of a natural number below 2^31
ISqrt(k) == ISqrtIn(k, 0, IF k < 46340 THEN k ELSE 46340)

\* square root, rounded down to a multiple of 1/100
Sqrt(x) ==
    IF IsNaN(x) \/ x.n < 0 THEN NaN
    ELSE IF ~IsFinite(x) THEN Inf
    ELSE Rat(ISqrt((x.n * 10000) \div x.d), 100)

\* f"{x:.<p>f}" for scale = 10^p: round to p decimals, ties to even; nan and
\* inf print as such
Fmt(x, scale) ==
    IF ~IsFinite(x) THEN x
    ELSE LET a == Abs(x.n) * scale
             q == a \div x.d
             r == a % x.d
             up == (2 * r > x.d) \/ (2 * r = x.d /\ q % 2 = 1)
         IN  Rat(Sgn(x.n) * (IF up THEN q + 1 ELSE q), scale)

Fmt2(x) == Fmt(x, 100)

Fmt1(x) == Fmt(x, 10)

(***************************************************************************)
(* The market data client.  A frame is what yf.download returns:           *)
(* [columns, rows], rows in ascending date order, each [t, cells] with one *)
(* cell per column.  A series is a sequence of [t, v].                     *)
(***************************************************************************)
MaxDay == 22

Days == 1 .. MaxDay

\* today = datetime.now(): the day after the last day with market data
today == MaxDay + 1

VixPatterns == {"flat", "saw", "step", "gaps", "zero", "odd"}

SpPatterns == {"flat", "saw", "zero_first", "zero_last", "gaps", "even"}

VixHasRow(p, d) ==
    CASE p = "gaps" -> d # 2
      [] p = "odd"  -> d % 2 = 1
      [] OTHER      -> TRUE

VixClose(p, d) ==
    CASE p = "flat" -> Num(20)
      [] p = "saw"  -> IF d % 2 = 0 THEN Num(10) ELSE Num(20)
      [] p = "step" -> IF d <= 2 THEN Num(10) ELSE Num(20)
      [] p = "gaps" -> IF d = 4 THEN NaN ELSE IF d % 2 = 0 THEN Num(10) ELSE Num(20)
      [] p = "zero" -> IF d = 1 \/ d = MaxDay THEN Num(0) ELSE Num(10)
      [] p = "odd"  -> IF d % 4 = 1 THEN Num(10) ELSE Num(20)

SpHasRow(p, d) ==
    CASE p = "gaps" -> d # 3
      [] p = "even" -> d % 2 = 0
      [] OTHER      -> TRUE

SpClose(p, d) ==
    CASE p = "flat"       -> Num(5000)
      [] p = "saw"        -> IF d % 3 = 0 THEN Num(10000) ELSE Num(5000)
      [] p = "zero_first" -> IF d = 1 THEN Num(0) ELSE Num(5000)
      [] p = "zero_last"  -> IF d = MaxDay THEN Num(0) ELSE Num(10000)
      [] p = "gaps"       -> IF d = 5 THEN NaN ELSE IF d % 3 = 0 THEN Num(10000) ELSE Num(5000)
      [] p = "even"       -> Num(5000)

VixFrame(p) ==
    LET ds == SelectSeq([d \in Days |-> d], LAMBDA d : VixHasRow(p, d))
    IN  [columns |-> <<"Open", "Close">>,
         rows    |-> [k \in 1 .. Len(ds) |->
                        [t |-> ds[k], cells |-> <<Num(15), VixClose(p, ds[k])>>]]]

SpFrame(p) ==
    LET ds == SelectSeq([d \in Days |-> d], LAMBDA d : SpHasRow(p, d))
    IN  [columns |-> <<"Adj Close", "Close">>,
         rows    |-> [k \in 1 .. Len(ds) |->
                        [t |-> ds[k], cells |-> <<SpClose(p, ds[k]), Num(5000)>>]]]

MarketOf(pv, ps) == [s \in {"^VIX", "^GSPC"} |->
                        IF s = "^VIX" THEN VixFrame(pv) ELSE SpFrame(ps)]

Markets == {MarketOf(pv, ps) : pv \in VixPatterns, ps \in SpPatterns}

EmptyFrame == [columns |-> <<>>, rows |-> <<>>]

\* yf.download(symbol, start=, end=): the rows with start <= t < end
Download(symbol, start, end) ==
    [columns |-> market[symbol].columns,
     rows    |-> SelectSeq(market[symbol].rows,
                           LAMBDA r : start <= r.t /\ r.t < end)]

\* What one call of yf.download can do: answer, answer with no rows, raise
DownloadOutcomes == {"ok", "empty", "raise"}

(***************************************************************************)
(* get_data                                                                *)
(***************************************************************************)
None == [isNone |-> TRUE, rows |-> <<>>]

DataFrame(rows) == [isNone |-> FALSE, rows |-> rows]

IsEmpty(frame) == frame.rows = <<>>

HasColumn(frame, name) == \E i \in 1 .. Len(frame.columns) : frame.columns[i] = name

ColumnAt(frame, i) ==
    [k \in 1 .. Len(frame.rows) |-> [t |-> frame.rows[k].t, v |-> frame.rows[k].cells[i]]]

ColumnNamed(frame, name) ==
    ColumnAt(frame, CHOOSE i \in 1 .. Len(frame.columns) : frame.columns[i] = name)

\* 'Adj Close' in str(col) or 'Close' in str(col), over the labels modelled
MentionsClose(col) == col \in {"Adj Close", "Close", "('Close', '^VIX')", "('Close', '^GSPC')"}

get_close_price(frame) ==
    IF HasColumn(frame, "Adj Close") THEN ColumnNamed(frame, "Adj Close")
    ELSE IF HasColumn(frame, "Close") THEN ColumnNamed(frame, "Close")
    ELSE IF \E i \in 1 .. Len(frame.columns) : MentionsClose(frame.columns[i])
         THEN ColumnAt(frame, CHOOSE i \in 1 .. Len(frame.columns) :
                                /\ MentionsClose(frame.columns[i])
                                /\ \A j \in 1 .. i - 1 : ~MentionsClose(frame.columns[j]))
    ELSE ColumnAt(frame, Len(frame.columns))

\* series reindexed on timestamp t: its value there, NaN where it has none
ValueAt(series, t) ==
    IF \E k \in 1 .. Len(series) : series[k].t = t
    THEN series[CHOOSE k \in 1 .. Len(series) : series[k].t = t].v
    ELSE NaN

\* combined_data['VIX'] = ...; combined_data['SP500'] = ...: the first column
\* sets the index, the second is aligned on it
Combine(vix, sp) ==
    [k \in 1 .. Len(vix) |-> [t |-> vix[k].t, VIX |-> vix[k].v, SP500 |-> ValueAt(sp, vix[k].t)]]

\* mutant of dropna: dropna(how='all'), dropping only the rows with no value
dropna_how_all(rows) == SelectSeq(rows, LAMBDA r : ~IsNaN(r.VIX) \/ ~IsNaN(r.SP500))

dropna(rows) == SelectSeq(rows, LAMBDA r : ~IsNaN(r.VIX) /\ ~IsNaN(r.SP500))

\* (VIX / SP500) * 1000
Ratio(r) == Mul(Div(r.VIX, r.SP500), Num(1000))

ma_window == 20

bb_period == 20

bb_std == 2

RECURSIVE SeqSum(_)
SeqSum(xs) == IF xs = <<>> THEN Num(0) ELSE Add(xs[1], SeqSum(Tail(xs)))

\* sum of squared deviations from m
RECURSIVE SumSqDev(_, _)
SumSqDev(xs, m) ==
    IF xs = <<>> THEN Num(0)
    ELSE Add(Mul(Sub(xs[1], m), Sub(xs[1], m)), SumSqDev(Tail(xs), m))

\* the trailing window of w values ending at position i (1-based), with
\* inf turned to NaN as pandas' rolling does before aggregating
RollingWindow(xs, i, w) ==
    [k \in 1 .. w |-> IF IsFinite(xs[i - w + k]) THEN xs[i - w + k] ELSE NaN]

\* Series.rolling(window=w).mean() at position i; min_periods = w
RollingMean(xs, i, w) ==
    IF i < w THEN NaN
    ELSE LET win == RollingWindow(xs, i, w)
         IN  IF \E k \in 1 .. w : IsNaN(win[k]) THEN NaN
             ELSE Div(SeqSum(win), Num(w))

\* Series.rolling(window=w).std() at position i; ddof = 1
RollingStd(xs, i, w) ==
    IF i < w THEN NaN
    ELSE LET win == RollingWindow(xs, i, w)
         IN  IF \E k \in 1 .. w : IsNaN(win[k]) THEN NaN
             ELSE Sqrt(Div(SumSqDev(win, Div(SeqSum(win), Num(w))), Num(w - 1)))

BBUpper(middle, std) == Add(middle, Mul(std, Num(bb_std)))

\* mutant of BBLower: the band added instead of subtracted
BBLower_added(middle, std) == Add(middle, Mul(std, Num(bb_std)))

BBLower(middle, std) == Sub(middle, Mul(std, Num(bb_std)))

\* lines 83-95: the derived columns
WithIndicators(rows) ==
    LET ratio == [k \in 1 .. Len(rows) |-> Ratio(rows[k])]
    IN  [k \in 1 .. Len(rows) |->
            LET middle == RollingMean(ratio, k, bb_period)
                std    == RollingStd(ratio, k, bb_period)
            IN  [t           |-> rows[k].t,
                 VIX         |-> rows[k].VIX,
                 SP500       |-> rows[k].SP500,
                 Ratio       |-> ratio[k],
                 Ratio_MA_20 |-> RollingMean(ratio, k, ma_window),
                 BB_Middle   |-> middle,
                 BB_Upper    |-> BBUpper(middle, std),
                 BB_Lower    |-> BBLower(middle, std)]]

\* one call of yf.download as the run saw it
Call(symbol, outcome, frame) == [symbol |-> symbol, raised |-> outcome = "raise", frame |-> frame]

\* mutant of get_data_body: no check that the aligned table is empty
get_data_body_unchecked(start, end, o1, o2) ==
    LET vix_data   == IF o1 = "ok" THEN Download("^VIX", start, end) ELSE EmptyFrame
        sp500_data == IF o2 = "ok" THEN Download("^GSPC", start, end) ELSE EmptyFrame
        combined   == dropna(Combine(get_close_price(vix_data), get_close_price(sp500_data)))
        both       == <<Call("^VIX", o1, vix_data), Call("^GSPC", o2, sp500_data)>>
    IN  IF o1 = "raise"
        THEN [value |-> None, messages |-> <<"Errore nel download dei dati", "Suggerimento">>,
              calls |-> <<Call("^VIX", o1, vix_data)>>]
        ELSE IF o2 = "raise"
        THEN [value |-> None, messages |-> <<"Errore nel download dei dati", "Suggerimento">>,
              calls |-> both]
        ELSE IF IsEmpty(vix_data) \/ IsEmpty(sp500_data)
        THEN [value |-> None, messages |-> <<"Impossibile scaricare i dati">>, calls |-> both]
        ELSE [value |-> DataFrame(WithIndicators(combined)), messages |-> <<>>, calls |-> both]

\* The body of get_data for the outcomes o1, o2 of its two downloads:
\* the value returned, the messages it shows, the downloads it made
get_data_body(start, end, o1, o2) ==
    LET vix_data   == IF o1 = "ok" THEN Download("^VIX", start, end) ELSE EmptyFrame
        sp500_data == IF o2 = "ok" THEN Download("^GSPC", start, end) ELSE EmptyFrame
        combined   == dropna(Combine(get_close_price(vix_data), get_close_price(sp500_data)))
        both       == <<Call("^VIX", o1, vix_data), Call("^GSPC", o2, sp500_data)>>
    IN  IF o1 = "raise"
        THEN [value |-> None, messages |-> <<"Errore nel download dei dati", "Suggerimento">>,
              calls |-> <<Call("^VIX", o1, vix_data)>>]
        ELSE IF o2 = "raise"
        THEN [value |-> None, messages |-> <<"Errore nel download dei dati", "Suggerimento">>,
              calls |-> both]
        ELSE IF IsEmpty(vix_data) \/ IsEmpty(sp500_data)
        THEN [value |-> None, messages |-> <<"Impossibile scaricare i dati">>, calls |-> both]
        ELSE IF combined = <<>>
        THEN [value |-> None, messages |-> <<"Nessun dato valido trovato">>, calls |-> both]
        ELSE [value |-> DataFrame(WithIndicators(combined)), messages |-> <<>>, calls |-> both]

(***************************************************************************)
(* pandas Series reductions used by main (skipna = True)                   *)
(***************************************************************************)
\* data[name]: one column of the table
Column(rows, name) == [k \in 1 .. Len(rows) |-> rows[k][name]]

NotNaN(xs) == SelectSeq(xs, LAMBDA x : ~IsNaN(x))

RECURSIVE Insert(_, _)
Insert(x, sorted) ==
    IF sorted = <<>> THEN <<x>>
    ELSE IF Leq(x, sorted[1]) THEN <<x>> \o sorted
    ELSE <<sorted[1]>> \o Insert(x, Tail(sorted))

RECURSIVE Sorted(_)
Sorted(xs) == IF xs = <<>> THEN <<>> ELSE Insert(xs[1], Sorted(Tail(xs)))

SeriesMean(xs) ==
    LET v == NotNaN(xs)
    IN  IF v = <<>> THEN NaN ELSE Div(SeqSum(v), Num(Len(v)))

\* median, min, max and quantile take the sorted non-NaN values of a series
SeriesMedian(v) ==
    LET n == Len(v)
    IN  IF n = 0 THEN NaN
        ELSE IF n % 2 = 1 THEN v[(n + 1) \div 2]
        ELSE Div(Add(v[n \div 2], v[n \div 2 + 1]), Num(2))

SeriesMin(v) == IF v = <<>> THEN NaN ELSE v[1]

SeriesMax(v) == IF v = <<>> THEN NaN ELSE v[Len(v)]

\* mutant of SeriesStd: ddof = 0
SeriesStd_ddof0(xs) ==
    LET v == NotNaN(xs)
        n == Len(v)
    IN  IF n = 0 THEN NaN
        ELSE Sqrt(Div(SumSqDev(v, Div(SeqSum(v), Num(n))), Num(n)))

\* Series.std(): ddof = 1
SeriesStd(xs) ==
    LET v == NotNaN(xs)
        n == Len(v)
    IN  IF n <= 1 THEN NaN
        ELSE Sqrt(Div(SumSqDev(v, Div(SeqSum(v), Num(n))), Num(n - 1)))

\* Series.quantile(p / 100), linear interpolation between order statistics
SeriesQuantile(v, p) ==
    LET n    == Len(v)
        lo   == ((n - 1) * p) \div 100
        frac == Rat(((n - 1) * p) % 100, 100)
        a    == v[lo + 1]
        b    == v[IF lo + 2 <= n THEN lo + 2 ELSE n]
        diff == Sub(b, a)
    IN  IF n = 0 THEN NaN
        ELSE IF Less(frac, Rat(1, 2)) THEN Add(a, Mul(diff, frac))
        ELSE Sub(b, Mul(diff, Sub(Num(1), frac)))

\* (data['Ratio'] <= current).mean() * 100
PercentileRank(xs, current) ==
    Mul(Rat(Cardinality({k \in 1 .. Len(xs) : Leq(xs[k], current)}), Len(xs)), Num(100))

(***************************************************************************)
(* main                                                                    *)
(***************************************************************************)
BlankScreen ==
    [status |-> "blank", messages |-> <<>>, exception |-> "", metrics |-> <<>>,
     chart |-> <<>>, stats |-> <<>>, bb |-> <<>>, percentiles |-> <<>>,
     current |-> <<>>, csv |-> <<>>, footer |-> <<>>]

\* lines 115-123, 126-134, 137-145: last value, change and change in percent
Metric(label, xs) ==
    LET current  == xs[Len(xs)]
        previous == xs[Len(xs) - 1]
        change   == Sub(current, previous)
    IN  [label |-> label, value |-> Fmt2(current), change |-> Fmt2(change),
         pct |-> Fmt2(Mul(Div(change, previous), Num(100)))]

Trace(name, column, factor) == [name |-> name, column |-> column, factor |-> factor]

\* lines 150-256: the traces of the figure
Chart(rows, ma, bb, vx, sp) ==
    [subplots |-> vx \/ sp,
     traces   |->
        <<Trace("Rapporto VIX/S&P500", "Ratio", Num(1))>>
        \o (IF ma THEN <<Trace("Media Mobile (20 giorni)", "Ratio_MA_20", Num(1))>> ELSE <<>>)
        \o (IF bb THEN <<Trace("Bollinger Superiore", "BB_Upper", Num(1)),
                         Trace("Bollinger Inferiore", "BB_Lower", Num(1)),
                         Trace("Bollinger Media", "BB_Middle", Num(1))>> ELSE <<>>)
        \o (IF vx THEN <<Trace("VIX", "VIX", Num(1))>> ELSE <<>>)
        \o (IF sp THEN <<Trace("S&P500 (normalizzato)", "SP500",
                               Div(SeriesMean(Column(rows, "VIX")),
                                   SeriesMean(Column(rows, "SP500"))))>>
                  ELSE <<>>)]

\* lines 316-325
Stats(ratio) ==
    LET v == Sorted(NotNaN(ratio))
    IN
    <<[name |-> "Media",               value |-> Fmt2(SeriesMean(ratio))],
      [name |-> "Mediana",             value |-> Fmt2(SeriesMedian(v))],
      [name |-> "Minimo",              value |-> Fmt2(SeriesMin(v))],
      [name |-> "Massimo",             value |-> Fmt2(SeriesMax(v))],
      [name |-> "Deviazione Standard", value |-> Fmt2(SeriesStd(ratio))]>>

\* mutant of BBPosition: "not <=" in place of ">"
BBPosition_negated(current_ratio, current_bb_upper, current_bb_lower) ==
    IF ~Leq(current_ratio, current_bb_upper)
    THEN "Sopra la banda superiore (ipercomprato)"
    ELSE IF ~Leq(current_bb_lower, current_ratio)
    THEN "Sotto la banda inferiore (ipervenduto)"
    ELSE "All'interno delle bande"

\* lines 335-343
BBPosition(current_ratio, current_bb_upper, current_bb_lower) ==
    IF Greater(current_ratio, current_bb_upper)
    THEN "Sopra la banda superiore (ipercomprato)"
    ELSE IF Less(current_ratio, current_bb_lower)
    THEN "Sotto la banda inferiore (ipervenduto)"
    ELSE "All'interno delle bande"

\* lines 330-348
BollingerInfo(last) ==
    [position |-> BBPosition(last.Ratio, last.BB_Upper, last.BB_Lower),
     upper    |-> Fmt2(last.BB_Upper),
     middle   |-> Fmt2(last.BB_Middle),
     lower    |-> Fmt2(last.BB_Lower)]

percentiles == <<10, 25, 50, 75, 90>>

\* lines 352-359
PercentileTable(ratio) ==
    LET v == Sorted(NotNaN(ratio))
    IN  [k \in 1 .. Len(percentiles) |->
            [percentile |-> percentiles[k], value |-> Fmt2(SeriesQuantile(v, percentiles[k]))]]

\* data.to_csv(): a header row, then one row per date; NaN is written empty
CsvCell(x) == IF IsNaN(x) THEN [empty |-> TRUE, v |-> Num(0)] ELSE [empty |-> FALSE, v |-> x]

to_csv(rows) ==
    [header |-> <<"Date", "VIX", "SP500", "Ratio", "Ratio_MA_20", "BB_Middle",
                  "BB_Upper", "BB_Lower">>,
     rows   |-> [k \in 1 .. Len(rows) |->
                   [t |-> rows[k].t,
                    cells |-> <<CsvCell(rows[k].VIX), CsvCell(rows[k].SP500),
                                CsvCell(rows[k].Ratio), CsvCell(rows[k].Ratio_MA_20),
                                CsvCell(rows[k].BB_Middle), CsvCell(rows[k].BB_Upper),
                                CsvCell(rows[k].BB_Lower)>>]]]

\* What main puts on the page for the result `got` of get_data (its value
\* and the messages it showed), the widget values and the clock
main(got, start, end, ma, bb, vx, sp, clock) ==
    LET rows  == got.value.rows
        ratio == Column(rows, "Ratio")
    IN  IF got.value.isNone \/ rows = <<>>
        THEN [BlankScreen EXCEPT
                !.status   = "no_data",
                !.messages = got.messages \o <<"Nessun dato disponibile">>,
                !.footer   = <<clock>>]
        ELSE IF Len(rows) < 2
        THEN \* data['VIX'].iloc[-2] raises IndexError; the script stops there
             [BlankScreen EXCEPT
                !.status    = "exception",
                !.messages  = got.messages,
                !.exception = "IndexError"]
        ELSE [status      |-> "rendered",
              messages    |-> got.messages,
              exception   |-> "",
              metrics     |-> <<Metric("VIX", Column(rows, "VIX")),
                                Metric("S&P500", Column(rows, "SP500")),
                                Metric("Rapporto VIX/S&P500", ratio)>>,
              chart       |-> <<Chart(rows, ma, bb, vx, sp)>>,
              stats       |-> Stats(ratio),
              bb          |-> <<BollingerInfo(rows[Len(rows)])>>,
              percentiles |-> PercentileTable(ratio),
              current     |-> <<[value      |-> Fmt2(ratio[Len(ratio)]),
                                 percentile |-> Fmt1(PercentileRank(ratio, ratio[Len(ratio)]))]>>,
              csv         |-> <<[file_name |-> <<"vix_sp500_ratio", start, "to", end>>,
                                 table     |-> to_csv(rows)]>>,
              footer      |-> <<clock>>]

(***************************************************************************)
(* @st.cache_data(ttl=3600) and one run of the script                      *)
(***************************************************************************)
ttl == 3600

\* mutant of CacheKey: a checkbox passed to get_data
CacheKey_with_toggle(start, end, ma, bb, vx, sp) == <<start, end, ma>>

\* get_data's arguments are the cache key
CacheKey(start, end, ma, bb, vx, sp) == <<start, end>>

Fresh(entry, clock) == clock < entry.stored + ttl

IsHit(key, clock) == key \in DOMAIN cache /\ Fresh(cache[key], clock)

\* mutant of CacheStore: a None result is not stored
CacheStore_successes(key, got, clock) ==
    LET live == {j \in DOMAIN cache : Fresh(cache[j], clock)}
    IN  IF got.value.isNone
        THEN [k \in live \ {key} |-> cache[k]]
        ELSE [k \in live \cup {key} |->
                IF k = key
                THEN [value |-> got.value, messages |-> got.messages, stored |-> clock]
                ELSE cache[k]]

\* the store after get_data ran for `key`: the new entry, and the entries
\* that have not expired
CacheStore(key, got, clock) ==
    [k \in {j \in DOMAIN cache : Fresh(cache[j], clock)} \cup {key} |->
        IF k = key
        THEN [value |-> got.value, messages |-> got.messages, stored |-> clock]
        ELSE cache[k]]

\* The script runs top to bottom with the widget values given: get_data
\* through its cache, then main
RunScript(start, end, ma, bb, vx, sp) ==
    LET key == CacheKey(start, end, ma, bb, vx, sp)
    IN  /\ start_date' = start
        /\ end_date' = end
        /\ show_ma' = ma
        /\ show_bb' = bb
        /\ show_vix' = vx
        /\ show_sp500' = sp
        /\ UNCHANGED <<market, now>>
        /\ \/ /\ IsHit(key, now)
              /\ cache' = cache
              /\ data' = cache[key].value
              /\ downloads' = <<>>
              /\ screen' = main(cache[key], start, end, ma, bb, vx, sp, now)
           \/ /\ ~IsHit(key, now)
              /\ \E o1, o2 \in DownloadOutcomes :
                    LET got == get_data_body(start, end, o1, o2)
                    IN  /\ cache' = CacheStore(key, got, now)
                        /\ data' = got.value
                        /\ downloads' = got.calls
                        /\ screen' = main(got, start, end, ma, bb, vx, sp, now)

(***************************************************************************)
(* The user's interactions; each re-runs the script                        *)
(***************************************************************************)
default_start == 1

\* the dates the user picks in a session: the first day and today
StartChoices == {default_start, today}

EndChoices == {default_start, today}

Rerun == RunScript(start_date, end_date, show_ma, show_bb, show_vix, show_sp500)

SetStartDate ==
    \E d \in StartChoices :
        /\ d # start_date
        /\ d <= end_date
        /\ RunScript(d, end_date, show_ma, show_bb, show_vix, show_sp500)

SetEndDate ==
    \E d \in EndChoices :
        /\ d # end_date
        /\ start_date <= d
        /\ d <= today
        /\ RunScript(start_date, d, show_ma, show_bb, show_vix, show_sp500)

ToggleMA == RunScript(start_date, end_date, ~show_ma, show_bb, show_vix, show_sp500)

ToggleBB == RunScript(start_date, end_date, show_ma, ~show_bb, show_vix, show_sp500)

ToggleVIX == RunScript(start_date, end_date, show_ma, show_bb, ~show_vix, show_sp500)

ToggleSP500 == RunScript(start_date, end_date, show_ma, show_bb, show_vix, ~show_sp500)

TickSeconds == 1800

MaxTime == 3700

Tick ==
    /\ now + TickSeconds <= MaxTime
    /\ now' = now + TickSeconds
    /\ UNCHANGED <<market, start_date, end_date, show_ma, show_bb, show_vix,
                   show_sp500, cache, data, downloads, screen>>

SessionMarkets == {MarketOf("saw", "saw"), MarketOf("odd", "even")}

\* A browser session: the page is opened with the widgets at their defaults
Init ==
    /\ market \in SessionMarkets
    /\ start_date = default_start
    /\ end_date = today
    /\ show_ma = TRUE
    /\ show_bb = TRUE
    /\ show_vix = TRUE
    /\ show_sp500 = TRUE
    /\ now = 0
    /\ cache = <<>>
    /\ data = None
    /\ downloads = <<>>
    /\ screen = BlankScreen

\* A session in which the user changes the dates and time passes
Next ==
    \/ Rerun
    \/ SetStartDate
    \/ SetEndDate
    \/ Tick

Spec == Init /\ [][Next]_vars

\* A session in which the user changes the dates and the checkboxes
NextToggle ==
    \/ Rerun
    \/ SetStartDate
    \/ SetEndDate
    \/ ToggleMA
    \/ ToggleBB
    \/ ToggleVIX
    \/ ToggleSP500

ToggleSpec == Init /\ [][NextToggle]_vars

\* the checkbox settings of a cold run: each checkbox both ways
RunToggles == {<<TRUE, TRUE, TRUE, TRUE>>, <<FALSE, FALSE, FALSE, FALSE>>,
               <<TRUE, FALSE, TRUE, FALSE>>, <<FALSE, TRUE, FALSE, TRUE>>}

\* One cold run of the script, for any market and date range
InitRun ==
    /\ market \in Markets
    /\ start_date \in {default_start, default_start + 1}
    /\ end_date \in start_date .. today
    /\ \E t \in RunToggles :
          /\ show_ma = t[1]
          /\ show_bb = t[2]
          /\ show_vix = t[3]
          /\ show_sp500 = t[4]
    /\ now = 0
    /\ cache = <<>>
    /\ data = None
    /\ downloads = <<>>
    /\ screen = BlankScreen

FirstRun ==
    /\ screen.status = "blank"
    /\ Rerun

NextRun == FirstRun

RunSpec == InitRun /\ [][NextRun]_vars

(***************************************************************************)
(* Properties                                                              *)
(***************************************************************************)
\* the price series the last run fetched (both downloads answered)
Fetched == Len(downloads) = 2 /\ ~downloads[1].raised /\ ~downloads[2].raised

seriesA == get_close_price(downloads[1].frame)

seriesB == get_close_price(downloads[2].frame)

\* the timestamps at which a series has a non-missing price
PricedDates(series) == {series[i].t : i \in {j \in 1 .. Len(series) : ~IsNaN(series[j].v)}}

MinOf(a, b) == IF a <= b THEN a ELSE b

RatioColumn == Column(data.rows, "Ratio")

LastRow == data.rows[Len(data.rows)]

\* C1: the table get_data returns holds only timestamps that both fetched
\* series have with a non-missing price, in ascending order, and has at most
\* min(len(seriesA), len(seriesB)) rows.
C1_AlignedRows ==
    (Fetched /\ ~data.isNone) =>
        /\ \A k \in 1 .. Len(data.rows) :
              data.rows[k].t \in PricedDates(seriesA) \cap PricedDates(seriesB)
        /\ \A k \in 1 .. Len(data.rows) - 1 : data.rows[k].t < data.rows[k + 1].t
        /\ Len(data.rows) <= MinOf(Len(seriesA), Len(seriesB))

\* C1 witness: a table built from two series with gaps and different
\* timestamp sets, shorter than both
C1_Witness ==
    /\ Fetched
    /\ ~data.isNone
    /\ Len(data.rows) >= 2
    /\ Len(data.rows) < Len(seriesA)
    /\ Len(data.rows) < Len(seriesB)
    /\ PricedDates(seriesA) # PricedDates(seriesB)

\* C2: a run of main ends with a rendered result, or with an error message
\* and an absent result; never with an unhandled exception.
C2_NoUnhandledException ==
    \/ screen.status = "blank"
    \/ screen.status = "rendered" /\ ~data.isNone
    \/ screen.status = "no_data" /\ data.isNone /\ screen.messages # <<>>

\* C3: when either fetched frame is empty, or no timestamp has a price in
\* both, get_data returns None and main shows the no-data message and no
\* metric, chart, statistic or CSV export.
C3_NoDataState ==
    (/\ Fetched
     /\ \/ IsEmpty(downloads[1].frame)
        \/ IsEmpty(downloads[2].frame)
        \/ PricedDates(seriesA) \cap PricedDates(seriesB) = {})
    => /\ data = None
       /\ screen.status = "no_data"
       /\ \E i \in 1 .. Len(screen.messages) : screen.messages[i] = "Nessun dato disponibile"
       /\ screen.metrics = <<>>
       /\ screen.chart = <<>>
       /\ screen.stats = <<>>
       /\ screen.bb = <<>>
       /\ screen.percentiles = <<>>
       /\ screen.current = <<>>
       /\ screen.csv = <<>>

\* C3 witness: both downloads gave rows, and no timestamp is priced in both
C3_Witness ==
    /\ Fetched
    /\ ~IsEmpty(downloads[1].frame)
    /\ ~IsEmpty(downloads[2].frame)
    /\ PricedDates(seriesA) \cap PricedDates(seriesB) = {}
    /\ screen.status = "no_data"

\* C4: every row of the table get_data returns has SP500 different from 0
\* and a finite ratio.
C4_ZeroPriceExcluded ==
    ~data.isNone =>
        \A k \in 1 .. Len(data.rows) :
            data.rows[k].SP500 # Num(0) /\ IsFinite(data.rows[k].Ratio)

\* the arithmetic mean of the w ratio values ending at position k
WindowMean(k, w) == Div(SeqSum(SubSeq(RatioColumn, k - w + 1, k)), Num(w))

\* C6: at row index i (0-based; position k = i + 1) the moving average has
\* no value when i < 19 and is the mean of ratio[i-19 .. i] when i >= 19;
\* BB_Middle is the same value.
C6_MovingAverage ==
    ~data.isNone =>
        \A k \in 1 .. Len(data.rows) :
            /\ k < 20 => IsNaN(data.rows[k].Ratio_MA_20)
            /\ k >= 20 => data.rows[k].Ratio_MA_20 = WindowMean(k, 20)
            /\ data.rows[k].BB_Middle = data.rows[k].Ratio_MA_20

\* C6, where every ratio of the window is finite (no SP500 price of 0)
MovingAverageOfFiniteWindows ==
    ~data.isNone =>
        \A k \in 1 .. Len(data.rows) :
            /\ k < 20 => IsNaN(data.rows[k].Ratio_MA_20)
            /\ (k >= 20 /\ \A j \in k - 19 .. k : IsFinite(RatioColumn[j]))
                  => data.rows[k].Ratio_MA_20 = WindowMean(k, 20)
            /\ data.rows[k].BB_Middle = data.rows[k].Ratio_MA_20

\* the sample standard deviation of the w ratio values ending at position k
WindowStd(k, w) ==
    Sqrt(Div(SumSqDev(SubSeq(RatioColumn, k - w + 1, k), WindowMean(k, w)), Num(w - 1)))

BandsDefined(r) == ~IsNaN(r.BB_Upper) /\ ~IsNaN(r.BB_Middle) /\ ~IsNaN(r.BB_Lower)

\* C7: where the bands are defined, BB_Upper >= BB_Middle >= BB_Lower, and
\* both distances from the middle are K times the standard deviation of the
\* trailing window, with K = bb_std >= 0.
C7_BandOrder ==
    ~data.isNone =>
        \A k \in 1 .. Len(data.rows) :
            BandsDefined(data.rows[k]) =>
                /\ bb_std >= 0
                /\ Leq(data.rows[k].BB_Lower, data.rows[k].BB_Middle)
                /\ Leq(data.rows[k].BB_Middle, data.rows[k].BB_Upper)
                /\ Sub(data.rows[k].BB_Upper, data.rows[k].BB_Middle)
                      = Mul(Num(bb_std), WindowStd(k, 20))
                /\ Sub(data.rows[k].BB_Middle, data.rows[k].BB_Lower)
                      = Mul(Num(bb_std), WindowStd(k, 20))

\* C7 witness: a row whose bands are defined and apart
C7_Witness ==
    /\ ~data.isNone
    /\ \E k \in 1 .. Len(data.rows) :
          /\ BandsDefined(data.rows[k])
          /\ Less(data.rows[k].BB_Lower, data.rows[k].BB_Middle)
          /\ Less(data.rows[k].BB_Middle, data.rows[k].BB_Upper)

\* the standard deviation of the non-missing ratio values with divisor
\* n - ddof, as the statistics table prints it
PrintedStd(ddof) ==
    LET v == NotNaN(RatioColumn)
        n == Len(v)
    IN  IF n - ddof <= 0 THEN NaN
        ELSE Fmt2(Sqrt(Div(SumSqDev(v, Div(SeqSum(v), Num(n))), Num(n - ddof))))

C10_ShortTableWithinBands ==
    (screen.status = "rendered" /\ Len(data.rows) < 20) =>
        /\ IsNaN(LastRow.BB_Upper)
        /\ IsNaN(LastRow.BB_Lower)
        /\ screen.bb[1].position = "All'interno delle bande"

\* C10 witness: such a table whose latest ratio is the largest value there is
C10_Witness ==
    /\ screen.status = "rendered"
    /\ Len(data.rows) < 20
    /\ LastRow.Ratio = Inf
    /\ screen.bb[1].position = "All'interno delle bande"

Toggles == <<show_ma, show_bb, show_vix, show_sp500>>

\* what a page shows that is computed from the table, as opposed to the
\* traces of the chart
Computed(page) ==
    [status |-> page.status, metrics |-> page.metrics, stats |-> page.stats,
     bb |-> page.bb, percentiles |-> page.percentiles, current |-> page.current,
     csv |-> page.csv]

\* C5: a run that differs from the previous one in the checkboxes only makes
\* no download (the checkboxes are not part of the cache key) and shows the
\* same table, metrics, statistics, band classification, percentile rank
\* and CSV.
C5_TogglesPresentationOnly ==
    [][(/\ screen.status # "blank"
        /\ start_date' = start_date
        /\ end_date' = end_date
        /\ Toggles' # Toggles)
       => /\ downloads' = <<>>
          /\ cache' = cache
          /\ data' = data
          /\ Computed(screen') = Computed(screen)]_vars

\* C5 witness: a table rendered from the cache with checkboxes changed, the
\* chart holding the traces the checkboxes ask for
C5_Witness ==
    /\ screen.status = "rendered"
    /\ downloads = <<>>
    /\ ~show_ma
    /\ show_bb
    /\ show_vix
    /\ ~show_sp500
    /\ Len(screen.chart[1].traces) = 5

\* C9: a run of get_data that returns None is stored under (start_date,
\* end_date) like any other; while that entry is younger than 3600 s a run
\* with the same dates gets None from it without a download, and once it is
\* 3600 s old the run downloads again.
C9_FailureMemoized ==
    [][now' = now =>
        LET key    == <<start_date', end_date'>>
            failed == key \in DOMAIN cache /\ cache[key].value.isNone
        IN  /\ data'.isNone =>
                  /\ key \in DOMAIN cache'
                  /\ cache'[key].value = None
                  /\ cache'[key].stored <= now
                  /\ now < cache'[key].stored + 3600
            /\ (failed /\ now < cache[key].stored + 3600) =>
                  /\ downloads' = <<>>
                  /\ data' = None
                  /\ cache' = cache
            /\ (failed /\ now >= cache[key].stored + 3600) => downloads' # <<>>]_vars

\* C9 witness: time has passed since a failed run, and the run with the same
\* dates was answered from its entry
C9_Witness ==
    /\ data.isNone
    /\ screen.status = "no_data"
    /\ downloads = <<>>
    /\ <<start_date, end_date>> \in DOMAIN cache
    /\ cache[<<start_date, end_date>>].stored < now

====
